---- MODULE Spec2Model ----
(***************************************************************************)
(* A model of aquathone.py: the main thread (argument handling, loader,    *)
(* batch loop, thread-pool coordinator, report writer) and the worker      *)
(* units (fetch_subdomain, take_screenshot) a ThreadPoolExecutor runs.     *)
(*                                                                         *)
(* Python strings are sequences of pieces (TLA+ strings); None is the      *)
(* empty sequence, and no string held in an optional place is empty.       *)
(***************************************************************************)
EXTENDS Integers, Sequences, FiniteSets, TLC

\* ------------------------------------------------------------------ bounds
MaxLines == 3
MaxConcurrency == 2
MaxBatchSize == 2
MaxSentinelLines == 2
MaxFairLines == 2

\* --------------------------------------------------------- program constants
\* The batch size of the program. The runs explored take their batch size
\* (the variable batch_size) from 1..MaxBatchSize; the operators of the batch
\* loop are evaluated at BATCH_SIZE itself in C8_Example.
BATCH_SIZE == 100

None == <<>>

\* The whitespace str.strip() removes.
Whitespace == {" ", "\n", "\t"}

\* ------------------------------------------------------------ pure helpers
RECURSIVE lstrip(_)
lstrip(s) ==
    IF s # <<>> /\ Head(s) \in Whitespace THEN lstrip(Tail(s)) ELSE s

RECURSIVE rstrip(_)
rstrip(s) ==
    IF s # <<>> /\ s[Len(s)] \in Whitespace
    THEN rstrip(SubSeq(s, 1, Len(s) - 1))
    ELSE s

\* str.strip()
strip(s) == rstrip(lstrip(s))

\* The list comprehension of load_subdomains over the lines of the file.
RECURSIVE load_subdomains(_)
load_subdomains(lines) ==
    IF lines = <<>> THEN <<>>
    ELSE IF strip(Head(lines)) # <<>>
         THEN <<strip(Head(lines))>> \o load_subdomains(Tail(lines))
         ELSE load_subdomains(Tail(lines))

\* Index of the first ":" of a header argument, 0 when there is none.
RECURSIVE find_colon(_, _)
find_colon(h, k) ==
    IF k > Len(h) THEN 0
    ELSE IF h[k] = ":" THEN k ELSE find_colon(h, k + 1)

\* Mutant of split_header: str.partition, which yields an empty value when
\* the separator is missing.
partition_header(h) ==
    LET k == find_colon(h, 1)
    IN IF k = 0 THEN <<h, <<>>>>
       ELSE <<SubSeq(h, 1, k - 1), SubSeq(h, k + 1, Len(h))>>

\* header.split(":", 1): one part when there is no separator, else two.
split_header(h) ==
    LET k == find_colon(h, 1) IN
    IF k = 0 THEN <<h>>
    ELSE <<SubSeq(h, 1, k - 1), SubSeq(h, k + 1, Len(h))>>

\* The header loop of main: TRUE when some entry cannot be unpacked into
\* key and value (ValueError).
RECURSIVE headers_malformed(_)
headers_malformed(hs) ==
    IF hs = <<>> THEN FALSE
    ELSE Len(split_header(Head(hs))) # 2 \/ headers_malformed(Tail(hs))

\* The header loop of main: the dictionary built from well-formed entries,
\* later entries overwriting earlier ones with the same key.
RECURSIVE parse_headers(_, _)
parse_headers(hs, d) ==
    IF hs = <<>> THEN d
    ELSE LET kv  == split_header(Head(hs))
             key == strip(kv[1])
             val == strip(kv[2])
         IN parse_headers(Tail(hs),
                [k \in DOMAIN d \cup {key} |-> IF k = key THEN val ELSE d[k]])

\* str(n) for n >= 0.
Digits == <<"0", "1", "2", "3", "4", "5", "6", "7", "8", "9">>

RECURSIVE str(_)
str(n) ==
    IF n < 10 THEN <<Digits[n + 1]>>
    ELSE str(n \div 10) \o <<Digits[(n % 10) + 1]>>

\* f"http://{subdomain}"
url_of(subdomain) == <<"http://">> \o subdomain

\* f"{screenshot_dir}/{subdomain}.png"
screenshot_filename(subdomain) == <<"screenshots", "/">> \o subdomain \o <<".png">>

\* Mutant of batch_offsets: the loop body runs once even for an empty list.
batch_offsets_at_least_one(n, size) == {o \in 0..(n - 1) : o % size = 0} \cup {0}

\* range(0, n, size): the offsets at which the batch loop starts a batch.
batch_offsets(n, size) == {o \in 0..(n - 1) : o % size = 0}

\* subdomains[i:i + size], with Python's clipping of the slice end.
slice(subdomains, i, size) ==
    SubSeq(subdomains, i + 1, IF i + size < Len(subdomains) THEN i + size ELSE Len(subdomains))

\* Mutant of output_file_of: the ordinal counted from zero.
output_file_zero_based(output_prefix, i, size) ==
    output_prefix \o <<"_">> \o str(i \div size) \o <<".html">>

\* f"{output_prefix}_{i//size + 1}.html"
output_file_of(output_prefix, i, size) ==
    output_prefix \o <<"_">> \o str((i \div size) + 1) \o <<".html">>

\* template.render(results=results): the document, one row per result.
render(results) == <<<<"<html>">>>> \o results \o <<<<"</html>">>>>

\* title = soup.title.string if soup.title else "No Title Found"
NoTitleFound == <<"No Title Found">>
FailedToFetch == <<"Failed to Fetch">>
extract_title(soup_title) ==
    IF soup_title # None THEN soup_title ELSE NoTitleFound

\* The exception classes the workers meet, each with its base classes.
Bases(e) ==
    CASE e = "RequestException"   -> {"RequestException", "IOError", "Exception"}
      [] e = "WebDriverException" -> {"WebDriverException", "Exception"}
      [] OTHER                     -> {"Exception"}

\* Mutant of fetch_subdomain_handles: except requests.exceptions.RequestException
only_request_exceptions == {"RequestException"}

\* except (requests.exceptions.RequestException, Exception) in fetch_subdomain
fetch_subdomain_handles == {"RequestException", "Exception"}
fetch_subdomain_catches(e) == Bases(e) \cap fetch_subdomain_handles # {}

\* except Exception in take_screenshot
take_screenshot_handles == {"Exception"}
take_screenshot_catches(e) == Bases(e) \cap take_screenshot_handles # {}

\* ------------------------------------------------------------------ inputs
\* The hosts the input names, and the <title> string of the page each
\* serves when its fetch succeeds (None: the page has no title element).
\* One page is titled with the very text fetch_subdomain reports a failure by.
Hosts == {<<"a.com">>, <<"b.org">>, <<"c.net">>}
page_title(host) ==
    CASE host = <<"a.com">> -> <<"Example Domain">>
      [] host = <<"b.org">> -> None
      [] OTHER              -> FailedToFetch

\* Lines an input file is made of: a blank line, a plain host name, a host
\* name with surrounding whitespace.
SampleLines == {<<"\n">>, <<"a.com", "\n">>, <<" ", "b.org", " ", "\n">>}

\* The same with the line of the page titled like a failure.
SentinelLines == SampleLines \cup {<<"\t", "c.net", "\n">>}

RECURSIVE SeqsUpTo(_, _)
SeqsUpTo(S, n) ==
    IF n = 0 THEN {<<>>}
    ELSE LET shorter == SeqsUpTo(S, n - 1)
         IN shorter \cup {Append(q, x) : q \in {r \in shorter : Len(r) = n - 1}, x \in S}

\* The input file: unreadable, or its lines.
Unreadable == [readable |-> FALSE, lines |-> <<>>]
Files == {Unreadable} \cup
         {[readable |-> TRUE, lines |-> ls] : ls \in SeqsUpTo(SampleLines, MaxLines)}
SentinelFiles ==
    {[readable |-> TRUE, lines |-> ls] : ls \in SeqsUpTo(SentinelLines, MaxSentinelLines)}
FairFiles == {Unreadable} \cup
    {[readable |-> TRUE, lines |-> ls] : ls \in SeqsUpTo(SampleLines, MaxFairLines)}

\* The -H arguments: a well-formed one, one without the separator; and
\* with them the case of none given (args.header is None).
HeaderArgs == {<<<<"X-Test", ":", " ", "1">>>>, <<<<"X-Test", " ", "1">>>>}
AllHeaderArgs == HeaderArgs \cup {None}

\* ------------------------------------------------------------------- state
VARIABLES
    pc,             \* where the main thread is
    args,           \* the parsed command line
    file,           \* the input file
    batch_size,     \* the module-level BATCH_SIZE of this run
    headers,        \* main: headers
    subdomains,     \* main: subdomains
    i,              \* split_and_process_subdomains: loop variable (-1 before the loop)
    batch,          \* split_and_process_subdomains: batch
    submitted,      \* process_subdomains: futures submitted so far
    unit,           \* per target position: the work item / future of its fetch_subdomain call
    finished,       \* as_completed: futures found finished when it was called, not yet yielded
    waiter,         \* as_completed: futures finished since, in completion order, not yet yielded
    to_yield,       \* as_completed: futures it has still to yield
    results,        \* process_subdomains: results
    sessions,       \* open browser sessions (by unit)
    screenshots,    \* files in the screenshots directory
    output_content, \* generate_html_report: output_content
    disk,           \* report files: name -> content written so far
    error,          \* the exception that ended the run, None if none
    completed,      \* futures of the batch in the order they finished
    found_finished, \* as_completed: the futures it found finished when it was called
    yielded,        \* futures in the order as_completed has yielded them
    attempts        \* per target position: GETs issued, captures (driver.get) begun

vars == <<pc, args, file, batch_size, headers, subdomains, i, batch, submitted,
          unit, finished, waiter, to_yield, results, sessions, screenshots,
          output_content, disk, error, completed, found_finished, yielded,
          attempts>>

\* A work item that does not exist (not yet submitted, or dropped with its batch).
NoUnit == [st |-> "unsubmitted", subdomain |-> None, url |-> None, headers |-> None,
           fetch |-> "none", capture |-> "none", title |-> None, shot |-> None,
           result |-> None, exc |-> None]

\* The run ends with an uncaught exception.
Abort(e) ==
    /\ pc' = "aborted"
    /\ error' = <<e>>

Positions == 1..Len(subdomains)

\* The positions of the current batch within subdomains.
BatchPositions == IF i < 0 THEN {} ELSE (i + 1)..(i + Len(batch))

ActiveStates == {"fetching", "fetched", "fetch_failed", "capturing",
                 "captured", "capture_failed", "raised"}

\* Work items a worker thread is running.
Active == {p \in Positions : unit[p].st \in ActiveStates}

max_workers == args.concurrency

\* output_file of the current loop iteration
output_file == output_file_of(args.output, i, batch_size)

\* The state main starts in, given -H arguments among H and one of the files F.
InitWith(H, F) ==
    /\ pc = "parse_headers"
    /\ args \in [header : H, concurrency : 0..MaxConcurrency,
                 output : {<<"subdomain_report">>}]
    /\ file \in F
    /\ batch_size \in 1..MaxBatchSize
    /\ headers = <<>>
    /\ subdomains = <<>>
    /\ i = -1
    /\ batch = <<>>
    /\ submitted = 0
    /\ unit = <<>>
    /\ finished = {}
    /\ waiter = <<>>
    /\ to_yield = {}
    /\ results = <<>>
    /\ sessions = {}
    /\ screenshots = {}
    /\ output_content = None
    /\ disk = <<>>
    /\ error = None
    /\ completed = <<>>
    /\ found_finished = {}
    /\ yielded = <<>>
    /\ attempts = <<>>

Init == InitWith(HeaderArgs, Files)

\* Runs over short files that may name the page titled like a failure, with
\* or without -H arguments.
InitSentinel == InitWith(AllHeaderArgs, SentinelFiles)

\* Runs over the short files on which termination is checked.
InitFair == InitWith(HeaderArgs, FairFiles)

\* ------------------------------------------------------------ main thread
\* main, lines 191-196: the -H arguments become the headers dictionary.
ParseHeaders ==
    /\ pc = "parse_headers"
    /\ IF args.header # None /\ headers_malformed(args.header)
       THEN /\ Abort("ValueError")
            /\ UNCHANGED headers
       ELSE /\ headers' = IF args.header # None
                          THEN parse_headers(args.header, <<>>)
                          ELSE <<>>
            /\ pc' = "load"
            /\ UNCHANGED error
    /\ UNCHANGED <<completed, found_finished, yielded, attempts>>
    /\ UNCHANGED <<args, file, batch_size, subdomains, i, batch, submitted, unit,
                   finished, waiter, to_yield, results, sessions, screenshots,
                   output_content, disk>>

\* main, line 199: load_subdomains reads the input file to its end.
LoadSubdomains ==
    /\ pc = "load"
    /\ IF ~file.readable
       THEN /\ Abort("OSError")
            /\ UNCHANGED <<subdomains, unit, file, attempts>>
       ELSE /\ subdomains' = load_subdomains(file.lines)
            /\ unit' = [p \in 1..Len(subdomains') |-> NoUnit]
            /\ attempts' = [p \in 1..Len(subdomains') |-> [gets |-> 0, captures |-> 0]]
            /\ file' = [file EXCEPT !.lines = <<>>]
            /\ pc' = "split"
            /\ UNCHANGED error
    /\ UNCHANGED <<completed, found_finished, yielded>>
    /\ UNCHANGED <<args, batch_size, headers, i, batch, submitted,
                   finished, waiter, to_yield, results, sessions, screenshots,
                   output_content, disk>>

\* The offset the batch loop takes after offset o, -1 when range() is exhausted.
next_offset(o) ==
    LET later == {x \in batch_offsets(Len(subdomains), batch_size) : x > o}
    IN IF later = {} THEN -1
       ELSE CHOOSE x \in later : \A y \in later : x <= y

\* split_and_process_subdomains, lines 171-175: the loop takes its next
\* batch and calls process_subdomains (line 122), or ends.
SplitNext ==
    /\ pc = "split"
    /\ IF next_offset(i) < 0
       THEN /\ pc' = "done"
            /\ UNCHANGED <<i, batch, results, submitted>>
       ELSE /\ i' = next_offset(i)
            /\ batch' = slice(subdomains, i', batch_size)
            /\ results' = <<>>
            /\ submitted' = 0
            /\ pc' = "executor"
    /\ UNCHANGED <<completed, found_finished, yielded, attempts>>
    /\ UNCHANGED <<args, file, batch_size, headers, subdomains, unit, finished,
                   waiter, to_yield, sessions, screenshots, output_content, disk, error>>

\* process_subdomains, line 125: ThreadPoolExecutor(max_workers) refuses a
\* pool of no workers.
CreateExecutor ==
    /\ pc = "executor"
    /\ IF max_workers <= 0
       THEN Abort("ValueError")
       ELSE /\ pc' = "submit"
            /\ UNCHANGED error
    /\ UNCHANGED <<completed, found_finished, yielded, attempts>>
    /\ UNCHANGED <<args, file, batch_size, headers, subdomains, i, batch,
                   submitted, unit, finished, waiter, to_yield, results, sessions,
                   screenshots, output_content, disk>>

\* Mutant of submitted_target: every submit passes the batch's first target.
first_target(k) == batch[1]

\* process_subdomains, line 126: the target the k-th submit of the batch passes.
submitted_target(k) == batch[k]

\* process_subdomains, line 126: executor.submit for the next target of the batch.
Submit ==
    /\ pc = "submit"
    /\ submitted < Len(batch)
    /\ submitted' = submitted + 1
    /\ unit' = [unit EXCEPT ![i + submitted + 1] = [NoUnit EXCEPT !.st = "pending",
                             !.subdomain = submitted_target(submitted + 1)]]
    /\ UNCHANGED <<completed, found_finished, yielded, attempts>>
    /\ UNCHANGED <<pc, args, file, batch_size, headers, subdomains, i, batch,
                   finished, waiter, to_yield, results, sessions, screenshots,
                   output_content, disk, error>>

\* process_subdomains, line 129: as_completed sets apart the futures that
\* are finished already and installs its waiter on the others.
AsCompleted ==
    /\ pc = "submit"
    /\ submitted = Len(batch)
    /\ finished' = {p \in BatchPositions : unit[p].st = "finalized"}
    /\ waiter' = <<>>
    /\ to_yield' = BatchPositions
    /\ found_finished' = finished'
    /\ pc' = "drain"
    /\ UNCHANGED <<completed, yielded, attempts>>
    /\ UNCHANGED <<args, file, batch_size, headers, subdomains, i, batch,
                   submitted, unit, results, sessions, screenshots,
                   output_content, disk, error>>

\* The future as_completed may yield next: any of those finished before it
\* was called (it pops them from a set), then the others as they finished.
Yieldable ==
    IF finished # {} THEN finished
    ELSE IF waiter # <<>> THEN {Head(waiter)} ELSE {}

\* Mutant of collected: only results with a screenshot are kept.
collected_if_captured(rs, r) == IF r[3] = None THEN rs ELSE Append(rs, r)

\* process_subdomains, line 131: results.append(result)
collected(rs, r) == Append(rs, r)

\* process_subdomains, lines 129-131: one turn of the collecting loop.
\* future.result() re-raises what the call raised.
Collect(p) ==
    /\ pc = "drain"
    /\ p \in Yieldable
    /\ finished' = finished \ {p}
    /\ waiter' = IF finished # {} THEN waiter ELSE Tail(waiter)
    /\ to_yield' = to_yield \ {p}
    /\ yielded' = Append(yielded, p)
    /\ IF unit[p].exc # None
       THEN /\ Abort(unit[p].exc[1])
            /\ UNCHANGED results
       ELSE /\ results' = collected(results, unit[p].result)
            /\ UNCHANGED <<pc, error>>
    /\ UNCHANGED <<completed, found_finished, attempts>>
    /\ UNCHANGED <<args, file, batch_size, headers, subdomains, i, batch,
                   submitted, unit, sessions, screenshots, output_content, disk>>

\* Mutant of all_collected: the coordinator waits for the first finished
\* future only (wait with FIRST_COMPLETED).
first_completed == \E p \in BatchPositions : unit[p].st = "finalized"

\* Mutant of all_collected: return from inside the collecting loop, at the
\* first future yielded.
first_collected == to_yield # BatchPositions

\* process_subdomains, line 129: the collecting loop ends when as_completed
\* has yielded every future.
all_collected == to_yield = {}

\* process_subdomains, lines 131-133: every future was yielded; the pool is
\* shut down, results returned and the futures dropped.
ProcessReturn ==
    /\ pc = "drain"
    /\ all_collected
    /\ unit' = [p \in Positions |->
                  IF p \in BatchPositions /\ unit[p].st = "finalized"
                  THEN [NoUnit EXCEPT !.st = "finalized"]
                  ELSE unit[p]]
    /\ completed' = <<>>
    /\ found_finished' = {}
    /\ yielded' = <<>>
    /\ pc' = "render"
    /\ UNCHANGED attempts
    /\ UNCHANGED <<args, file, batch_size, headers, subdomains, i, batch,
                   submitted, finished, waiter, to_yield, results, sessions, screenshots,
                   output_content, disk, error>>

\* Mutant of generate_html_report_raises: the batch loop logs the error and
\* goes on to its next batch.
report_error_skips_batch(e) ==
    /\ pc' = "split"
    /\ UNCHANGED error

\* split_and_process_subdomains, line 177, and main, line 202: no handler
\* encloses the call of generate_html_report; what it raises ends the run.
generate_html_report_raises(e) == Abort(e)

\* generate_html_report, lines 143-151: the template is loaded and rendered;
\* a missing or failing template raises.
RenderReport ==
    /\ pc = "render"
    /\ \E ok \in BOOLEAN :
         IF ok
         THEN /\ output_content' = render(results)
              /\ pc' = "open"
              /\ UNCHANGED error
         ELSE /\ generate_html_report_raises("TemplateError")
              /\ UNCHANGED output_content
    /\ UNCHANGED <<completed, found_finished, yielded, attempts>>
    /\ UNCHANGED <<args, file, batch_size, headers, subdomains, i, batch,
                   submitted, unit, finished, waiter, to_yield, results, sessions,
                   screenshots, disk>>

\* disk with file f holding content c
written(f, c) == [g \in DOMAIN disk \cup {f} |-> IF g = f THEN c ELSE disk[g]]

\* generate_html_report, line 154: open(output_file, "w") creates the file
\* or truncates it, or raises when the destination is unwritable.
OpenReport ==
    /\ pc = "open"
    /\ \E ok \in BOOLEAN :
         IF ok
         THEN /\ disk' = written(output_file, <<>>)
              /\ pc' = "write"
              /\ UNCHANGED error
         ELSE /\ generate_html_report_raises("OSError")
              /\ UNCHANGED disk
    /\ UNCHANGED <<completed, found_finished, yielded, attempts>>
    /\ UNCHANGED <<args, file, batch_size, headers, subdomains, i, batch,
                   submitted, unit, finished, waiter, to_yield, results, sessions,
                   screenshots, output_content>>

\* generate_html_report, line 155: file.write hands the content to the
\* buffered file, which has flushed some leading part of it when write returns.
WriteReport ==
    /\ pc = "write"
    /\ \E k \in 0..Len(output_content) :
         disk' = written(output_file, SubSeq(output_content, 1, k))
    /\ pc' = "close"
    /\ UNCHANGED <<completed, found_finished, yielded, attempts>>
    /\ UNCHANGED <<args, file, batch_size, headers, subdomains, i, batch,
                   submitted, unit, finished, waiter, to_yield, results, sessions,
                   screenshots, output_content, error>>

\* generate_html_report, lines 154-157: leaving the with block closes the
\* file, which flushes the rest; control returns to the batch loop.
CloseReport ==
    /\ pc = "close"
    /\ disk' = written(output_file, output_content)
    /\ pc' = "split"
    /\ UNCHANGED <<completed, found_finished, yielded, attempts>>
    /\ UNCHANGED <<args, file, batch_size, headers, subdomains, i, batch,
                   submitted, unit, finished, waiter, to_yield, results, sessions,
                   screenshots, output_content, error>>

\* ---------------------------------------------------------------- workers
\* Mutant of worker_available: the pool starts a thread for every work item.
always_available == TRUE

\* The pool runs at most max_workers work items at a time.
worker_available == Cardinality(Active) < max_workers

\* Mutant of notified: as_completed installs no waiter on the futures that
\* are still running.
not_notified(p) == waiter

\* Mutant of notified: the waiter's list is consumed from its newest entry
\* (as_completed without its finished.reverse()).
notified_first(p) ==
    IF pc = "drain" /\ p \in BatchPositions THEN <<p>> \o waiter ELSE waiter

\* The future of position p is finished: as_completed's waiter, when
\* installed, notes it.
notified(p) ==
    IF pc = "drain" /\ p \in BatchPositions THEN Append(waiter, p) ELSE waiter

\* A worker thread takes the oldest queued work item and calls
\* fetch_subdomain, which issues the GET (lines 29-30).
StartUnit(p) ==
    /\ unit[p].st = "pending"
    /\ \A q \in Positions : q < p => unit[q].st # "pending"
    /\ worker_available
    /\ unit' = [unit EXCEPT ![p].st = "fetching",
                             ![p].url = url_of(unit[p].subdomain),
                             ![p].headers = headers]
    /\ attempts' = [attempts EXCEPT ![p].gets = @ + 1]
    /\ UNCHANGED <<completed, found_finished, yielded>>
    /\ UNCHANGED <<pc, args, file, batch_size, headers, subdomains, i, batch,
                   submitted, finished, waiter, to_yield, results, sessions, screenshots,
                   output_content, disk, error>>

\* Mutant of fetch_subdomain_except: the handler puts the target back in
\* the queue for another attempt.
retry_fetch(e) == "pending"

\* Mutant of fetch_subdomain_except: the handler encloses the GET alone and
\* the function goes on to the capture.
continue_to_capture(e) == "fetched"

\* Where an exception raised in the try block of fetch_subdomain goes.
fetch_subdomain_except(e) ==
    IF fetch_subdomain_catches(e) THEN "fetch_failed" ELSE "raised"

\* fetch_subdomain, lines 30-37: the GET returns and the title is
\* extracted, or the GET raises.
FetchReturn(p) ==
    /\ unit[p].st = "fetching"
    /\ \/ unit' = [unit EXCEPT ![p].st = "fetched",
                               ![p].fetch = "ok",
                               ![p].title = extract_title(page_title(unit[p].subdomain))]
       \/ unit' = [unit EXCEPT ![p].st = fetch_subdomain_except("RequestException"),
                               ![p].fetch = "error",
                               ![p].exc = <<"RequestException">>]
    /\ UNCHANGED <<completed, found_finished, yielded, attempts>>
    /\ UNCHANGED <<pc, args, file, batch_size, headers, subdomains, i, batch,
                   submitted, finished, waiter, to_yield, results, sessions, screenshots,
                   output_content, disk, error>>

\* take_screenshot, lines 63-71: the browser session is started; when that
\* fails the exception leaves take_screenshot, which has no handler here.
StartSession(p) ==
    /\ unit[p].st = "fetched"
    /\ UNCHANGED attempts
    /\ \/ /\ unit' = [unit EXCEPT ![p].st = "capturing"]
          /\ sessions' = sessions \cup {p}
       \/ /\ unit' = [unit EXCEPT ![p].st = fetch_subdomain_except("WebDriverException"),
                                  ![p].capture = "start_error",
                                  ![p].exc = <<"WebDriverException">>]
          /\ UNCHANGED sessions
    /\ UNCHANGED <<completed, found_finished, yielded>>
    /\ UNCHANGED <<pc, args, file, batch_size, headers, subdomains, i, batch,
                   submitted, finished, waiter, to_yield, results, screenshots,
                   output_content, disk, error>>

\* take_screenshot, lines 74-91: navigation and capture succeed and the
\* image is saved, or one of them raises.
Capture(p) ==
    /\ unit[p].st = "capturing"
    /\ attempts' = [attempts EXCEPT ![p].captures = @ + 1]
    /\ \/ /\ unit' = [unit EXCEPT ![p].st = "captured",
                                  ![p].capture = "ok",
                                  ![p].shot = screenshot_filename(unit[p].subdomain)]
          /\ screenshots' = screenshots \cup {screenshot_filename(unit[p].subdomain)}
       \/ /\ unit' = [unit EXCEPT
                        ![p].st = IF take_screenshot_catches("WebDriverException")
                                  THEN "capture_failed" ELSE "unwinding",
                        ![p].capture = "error",
                        ![p].exc = <<"WebDriverException">>]
          /\ UNCHANGED screenshots
    /\ UNCHANGED <<completed, found_finished, yielded>>
    /\ UNCHANGED <<pc, args, file, batch_size, headers, subdomains, i, batch,
                   submitted, finished, waiter, to_yield, results, sessions,
                   output_content, disk, error>>

\* Mutant of quits: driver.quit() as the last statement of the try block.
quits_on_success(st) == st = "captured"

\* The exit paths of take_screenshot on which driver.quit() runs (finally).
quits(st) == st \in {"captured", "capture_failed", "unwinding"}

\* fetch_subdomain, line 42
fetch_result(p) == <<unit[p].subdomain, unit[p].title, unit[p].shot>>

\* Mutant of failure_result: the failure tuple names the screenshot file.
failure_result_with_image(p) ==
    <<unit[p].subdomain, FailedToFetch, screenshot_filename(unit[p].subdomain)>>

\* fetch_subdomain, line 46
failure_result(p) == <<unit[p].subdomain, FailedToFetch, None>>

\* take_screenshot, lines 87-94, and fetch_subdomain, line 42: the finally
\* clause ends the session, take_screenshot returns, fetch_subdomain returns
\* its tuple and the future is finished.
QuitSession(p) ==
    /\ unit[p].st \in {"captured", "capture_failed", "unwinding"}
    /\ sessions' = IF quits(unit[p].st) THEN sessions \ {p} ELSE sessions
    /\ IF unit[p].st = "unwinding"
       THEN /\ unit' = [unit EXCEPT ![p].st = fetch_subdomain_except(unit[p].exc[1])]
            /\ UNCHANGED <<waiter, completed>>
       ELSE /\ unit' = [unit EXCEPT ![p].st = "finalized",
                                    ![p].result = fetch_result(p),
                                    ![p].exc = None]
            /\ waiter' = notified(p)
            /\ completed' = Append(completed, p)
    /\ UNCHANGED <<found_finished, yielded, attempts>>
    /\ UNCHANGED <<pc, args, file, batch_size, headers, subdomains, i, batch,
                   submitted, finished, to_yield, results, screenshots,
                   output_content, disk, error>>

\* Mutant of FailureReturn: the handler of fetch_subdomain also appends its
\* tuple to the list of results, from the worker thread.
FailureReturnAppends(p) ==
    /\ unit[p].st \in {"fetch_failed", "raised"}
    /\ unit' = [unit EXCEPT ![p].st = "finalized",
                             ![p].result = failure_result(p),
                             ![p].exc = None]
    /\ results' = Append(results, failure_result(p))
    /\ waiter' = notified(p)
    /\ completed' = Append(completed, p)
    /\ UNCHANGED <<pc, args, file, batch_size, headers, subdomains, i, batch,
                   submitted, finished, to_yield, sessions, screenshots,
                   output_content, disk, error, found_finished, yielded, attempts>>

\* fetch_subdomain, lines 43-46: the handler returns the failure tuple and
\* the future is finished; an exception no handler caught finishes the
\* future with that exception.
FailureReturn(p) ==
    /\ unit[p].st \in {"fetch_failed", "raised"}
    /\ unit' = IF unit[p].st = "fetch_failed"
               THEN [unit EXCEPT ![p].st = "finalized",
                                 ![p].result = failure_result(p),
                                 ![p].exc = None]
               ELSE [unit EXCEPT ![p].st = "finalized"]
    /\ waiter' = notified(p)
    /\ completed' = Append(completed, p)
    /\ UNCHANGED <<found_finished, yielded, attempts>>
    /\ UNCHANGED <<pc, args, file, batch_size, headers, subdomains, i, batch,
                   submitted, finished, to_yield, results, sessions, screenshots,
                   output_content, disk, error>>

\* A step of unit p.
UnitStep(p) ==
    \/ StartUnit(p)
    \/ FetchReturn(p)
    \/ StartSession(p)
    \/ Capture(p)
    \/ QuitSession(p)
    \/ FailureReturn(p)

\* ------------------------------------------------------------------- spec
Next ==
    \/ ParseHeaders
    \/ LoadSubdomains
    \/ SplitNext
    \/ CreateExecutor
    \/ Submit
    \/ AsCompleted
    \/ \E p \in Positions : Collect(p)
    \/ ProcessReturn
    \/ RenderReport
    \/ OpenReport
    \/ WriteReport
    \/ CloseReport
    \/ \E p \in Positions : StartUnit(p)
    \/ \E p \in Positions : FetchReturn(p)
    \/ \E p \in Positions : StartSession(p)
    \/ \E p \in Positions : Capture(p)
    \/ \E p \in Positions : QuitSession(p)
    \/ \E p \in Positions : FailureReturn(p)

Spec == Init /\ [][Next]_vars

SpecSentinel == InitSentinel /\ [][Next]_vars

\* A step of the main thread.
MainStep ==
    \/ ParseHeaders
    \/ LoadSubdomains
    \/ SplitNext
    \/ CreateExecutor
    \/ Submit
    \/ AsCompleted
    \/ \E p \in Positions : Collect(p)
    \/ ProcessReturn
    \/ RenderReport
    \/ OpenReport
    \/ WriteReport
    \/ CloseReport

\* A step of the worker thread that runs the work item of position p.
WorkerStep(p) == p \in Positions /\ UnitStep(p)

\* The run under fair scheduling: the main thread is not suspended forever,
\* and every operation of a work item returns or raises (each has its own
\* timeout) while the pool keeps running its threads.
FairSpec ==
    /\ InitFair
    /\ [][Next]_vars
    /\ WF_vars(MainStep)
    /\ \A p \in 1..MaxFairLines : WF_vars(WorkerStep(p))

\* ================================================================= claims
\* Helpers of the claims' formulas.
Head_ == <<"<html>">>
Foot_ == <<"</html>">>

\* A document is complete for n results: opening row, n result rows, closing row.
IsCompleteDocument(doc, n) ==
    /\ Len(doc) = n + 2
    /\ doc[1] = Head_
    /\ doc[Len(doc)] = Foot_
    /\ \A k \in 2..(n + 1) : Len(doc[k]) = 3

\* The result rows a report file holds.
RowsOf(doc) == {k \in 1..Len(doc) : Len(doc[k]) = 3}

\* How often host h is the target of a row of doc, of an entry of a list of
\* results, of a list of targets.
RowCount(h, doc) == Cardinality({k \in RowsOf(doc) : doc[k][1] = h})
TargetCount(h, targets) == Cardinality({k \in 1..Len(targets) : targets[k] = h})

\* Over the report files F: the result rows they hold, and those of host h.
RECURSIVE TotalRows(_)
TotalRows(F) ==
    IF F = {} THEN 0
    ELSE LET f == CHOOSE g \in F : TRUE
         IN Cardinality(RowsOf(disk[f])) + TotalRows(F \ {f})

RECURSIVE TotalRowCount(_, _)
TotalRowCount(h, F) ==
    IF F = {} THEN 0
    ELSE LET f == CHOOSE g \in F : TRUE
         IN RowCount(h, disk[f]) + TotalRowCount(h, F \ {f})

ReportFiles == DOMAIN disk

\* Number of batches of n targets in batches of b: ceil(n / b).
Ceil(n, b) == (n + b - 1) \div b

\* The name the claim gives report k (k < 10).
ReportName(k) == args.output \o <<"_", Digits[k + 1], ".html">>

\* The k-th contiguous slice of the loaded list (1-based k).
KthSlice(k) ==
    LET lo == (k - 1) * batch_size + 1
        hi == IF k * batch_size < Len(subdomains) THEN k * batch_size ELSE Len(subdomains)
    IN [j \in 1..(hi - lo + 1) |-> subdomains[lo + j - 1]]

\* The 1-based ordinal of the batch the loop is at.
Ordinal == (i \div batch_size) + 1

\* C1: a run that reaches its end has written, over all reports, exactly one
\* result row per loaded target occurrence: as many rows as targets, and for
\* every host as many rows as the list names it.
C1_OneResultPerTarget ==
    pc = "done" =>
        /\ TotalRows(ReportFiles) = Len(subdomains)
        /\ \A h \in Hosts :
             TotalRowCount(h, ReportFiles) = TargetCount(h, subdomains)

\* C1 witness: a finished run over three targets and two reports in which a
\* fetch failed and a capture succeeded.
C1_Witness ==
    /\ pc = "done"
    /\ Len(subdomains) = 3
    /\ Cardinality(ReportFiles) = 2
    /\ \E f \in ReportFiles : \E k \in RowsOf(disk[f]) :
         disk[f][k][2] = FailedToFetch /\ disk[f][k][3] = None
    /\ \E f \in ReportFiles : \E k \in RowsOf(disk[f]) : disk[f][k][3] # None

\* C2: with a concurrency limit of at least one, the units started and not
\* yet finished never number more than the limit.
C2_BoundedConcurrency ==
    max_workers >= 1 => Cardinality(Active) <= max_workers

\* C2 witness: the limit binds: as many units run as the limit allows while
\* another unit of the batch waits in the queue.
C2_Witness ==
    /\ max_workers >= 1
    /\ Cardinality(Active) = max_workers
    /\ \E p \in Positions : unit[p].st = "pending"

\* The work items that exist: submitted and not yet dropped with their batch.
Live == {p \in Positions : unit[p].subdomain # None}

\* The finished futures that hold a result.
Finalized == {p \in Live : unit[p].st = "finalized" /\ unit[p].result # None}

\* C3 (as claimed): a unit whose fetch succeeded and whose capture failed, in
\* starting the session or later, returns the title it extracted (or the
\* no-title sentinel) and no image reference.
C3_CaptureFailureKeepsTitle ==
    \A p \in Finalized :
        (unit[p].fetch = "ok" /\ unit[p].capture \in {"start_error", "error"}) =>
            /\ unit[p].result[2] = unit[p].title
            /\ unit[p].result[2] # None
            /\ unit[p].result[3] = None

\* C4 (as claimed): every result record whose title is the fetch-failed
\* sentinel has no image reference.
C4_SentinelTitleHasNoImage ==
    \A p \in Finalized :
        unit[p].result[2] = FailedToFetch => unit[p].result[3] = None

\* C4 (amended): the result record of a unit whose fetch failed has no image
\* reference; and a record with the sentinel title and an image reference
\* belongs to a fetched page whose own title is the sentinel text.
C4_FailedFetchHasNoImage ==
    \A p \in Finalized :
        /\ unit[p].fetch = "error" =>
              unit[p].result = <<unit[p].subdomain, FailedToFetch, None>>
        /\ (unit[p].result[2] = FailedToFetch /\ unit[p].result[3] # None) =>
              (unit[p].fetch = "ok" /\ page_title(unit[p].subdomain) = FailedToFetch)

\* C4 witness: a unit whose fetch failed has returned its record.
C4_Witness ==
    \E p \in Finalized : unit[p].fetch = "error"

\* Unit p met a failure of its fetch or of its capture.
Failed(p) == unit[p].fetch = "error" \/ unit[p].capture \in {"start_error", "error"}

\* C5: a unit's failure stays its own. No worker exception reaches the
\* coordinator and every future finishes with a result for its own target;
\* a running unit can always take its next step, whatever its siblings met;
\* a unit that met no failure returns its normal record; and the batch
\* returns with one result per unit.
C5_FailureIsolation ==
    /\ error \notin {<<"RequestException">>, <<"WebDriverException">>}
    /\ \A p \in Live :
         /\ unit[p].st = "finalized" =>
               /\ unit[p].exc = None
               /\ unit[p].result # None
               /\ unit[p].result[1] = unit[p].subdomain
         /\ unit[p].st \in ActiveStates => ENABLED UnitStep(p)
         /\ (unit[p].st = "finalized" /\ unit[p].fetch = "ok" /\ unit[p].capture = "ok") =>
               unit[p].result = <<unit[p].subdomain,
                                  extract_title(page_title(unit[p].subdomain)),
                                  screenshot_filename(unit[p].subdomain)>>
    /\ pc \in {"render", "open", "write", "close"} => Len(results) = Len(batch)

\* C5 witness: a batch of two has returned; one unit failed its fetch, the
\* other returned a title and an image.
C5_Witness ==
    /\ pc = "render"
    /\ Len(results) = 2
    /\ \E j, k \in 1..2 :
         /\ results[j][2] = FailedToFetch /\ results[j][3] = None
         /\ results[k][2] = <<"Example Domain">> /\ results[k][3] # None

\* C6: a unit outside take_screenshot's try block holds no open session, and
\* while no batch is being processed no session is open.
C6_SessionsTornDown ==
    /\ \A p \in Positions :
         unit[p].st \notin {"capturing", "captured", "capture_failed", "unwinding"} =>
             p \notin sessions
    /\ pc \notin {"submit", "drain"} => sessions = {}

\* C6 witness: a unit whose capture failed inside the session has finished,
\* its batch has returned, and no session is open.
C6_Witness ==
    /\ pc = "drain"
    /\ all_collected
    /\ \E p \in Finalized : unit[p].capture = "error"
    /\ sessions = {}

\* The batch (0-based) a position of the loaded list falls in.
BatchOf(p) == (p - 1) \div batch_size

\* C7: batches run strictly one after the other: the units submitted and not
\* finished all belong to one batch, and once a unit of a batch is submitted
\* the report of every earlier batch is on disk, complete.
C7_BatchesSequential ==
    /\ \A p, q \in Positions :
         (unit[p].st \notin {"unsubmitted", "finalized"} /\
          unit[q].st \notin {"unsubmitted", "finalized"}) => BatchOf(p) = BatchOf(q)
    /\ \A p \in Positions :
         unit[p].st # "unsubmitted" =>
             \A k \in 1..BatchOf(p) :
                 /\ ReportName(k) \in ReportFiles
                 /\ IsCompleteDocument(disk[ReportName(k)], batch_size)

\* C7 witness: a unit of the second batch is fetching, the first batch's
\* report is complete on disk.
C7_Witness ==
    /\ \E p \in Positions : BatchOf(p) = 1 /\ unit[p].st = "fetching"
    /\ ReportName(1) \in ReportFiles
    /\ IsCompleteDocument(disk[ReportName(1)], batch_size)

\* The size the claim gives batch k of n targets in batches of b.
ClaimedSize(k, n, b) ==
    IF k < Ceil(n, b) THEN b
    ELSE IF n % b = 0 THEN b ELSE n % b

\* 250 targets, as the batch loop with BATCH_SIZE = 100 splits and names them.
ExampleTargets == [k \in 1..250 |-> <<"a.com">>]
C8_Example ==
    /\ batch_offsets(Len(ExampleTargets), BATCH_SIZE) = {0, 100, 200}
    /\ Len(slice(ExampleTargets, 0, BATCH_SIZE)) = 100
    /\ Len(slice(ExampleTargets, 100, BATCH_SIZE)) = 100
    /\ Len(slice(ExampleTargets, 200, BATCH_SIZE)) = 50
    /\ output_file_of(<<"prefix">>, 0, BATCH_SIZE) = <<"prefix", "_", "1", ".html">>
    /\ output_file_of(<<"prefix">>, 100, BATCH_SIZE) = <<"prefix", "_", "2", ".html">>
    /\ output_file_of(<<"prefix">>, 200, BATCH_SIZE) = <<"prefix", "_", "3", ".html">>
    /\ output_file_of(<<"prefix">>, 1100, BATCH_SIZE) = <<"prefix", "_", "1", "2", ".html">>

\* C8: the batch loop makes ceil(N/B) batches, each of at most B targets and
\* the last of N mod B (B when B divides N), and writes report k as
\* {prefix}_{k}.html; 250 targets in batches of 100 give 100/100/50.
C8_BatchCountAndNames ==
    /\ i >= 0 =>
         /\ Ordinal \in 1..Ceil(Len(subdomains), batch_size)
         /\ Len(batch) = ClaimedSize(Ordinal, Len(subdomains), batch_size)
         /\ Len(batch) \in 1..batch_size
         /\ pc \in {"render", "open", "write", "close"} => output_file = ReportName(Ordinal)
    /\ pc = "done" =>
         /\ ReportFiles = {ReportName(k) : k \in 1..Ceil(Len(subdomains), batch_size)}
         /\ Cardinality(ReportFiles) = Ceil(Len(subdomains), batch_size)
         /\ \A k \in 1..Ceil(Len(subdomains), batch_size) :
              IsCompleteDocument(disk[ReportName(k)],
                                 ClaimedSize(k, Len(subdomains), batch_size))
    /\ pc = "parse_headers" => C8_Example

\* C8 witness: a finished run of three targets in batches of two: two
\* reports, of two rows and of one.
C8_Witness ==
    /\ pc = "done"
    /\ Len(subdomains) = 3
    /\ batch_size = 2
    /\ ReportFiles = {ReportName(1), ReportName(2)}
    /\ Cardinality(RowsOf(disk[ReportName(1)])) = 2
    /\ Cardinality(RowsOf(disk[ReportName(2)])) = 1

\* How often host h is the target of an entry of a list of results.
ResultCount(h, rs) == Cardinality({k \in 1..Len(rs) : rs[k][1] = h})

\* C9: every position of the loaded list lies in exactly one batch; the
\* results collected for a batch are results for targets of that batch's
\* slice, and when the batch is handed to the report they name exactly the
\* slice's targets, each as often as the slice does; so does every report
\* on disk whenever the batch loop is at its head or has ended.
C9_BatchMembership ==
    /\ pc = "split" =>
         \A p \in Positions :
             Cardinality({o \in batch_offsets(Len(subdomains), batch_size) :
                            o < p /\ p <= o + Len(slice(subdomains, o, batch_size))}) = 1
    /\ pc = "drain" =>
         \A h \in Hosts : ResultCount(h, results) <= TargetCount(h, KthSlice(Ordinal))
    /\ pc \in {"render", "open", "write", "close"} =>
         \A h \in Hosts : ResultCount(h, results) = TargetCount(h, KthSlice(Ordinal))
    /\ pc \in {"split", "done"} =>
         \A f \in ReportFiles :
             \E k \in 1..Ceil(Len(subdomains), batch_size) :
                 /\ f = ReportName(k)
                 /\ \A h \in Hosts : RowCount(h, disk[f]) = TargetCount(h, KthSlice(k))

\* C9 witness: in a run of more than one batch, a batch of two different
\* targets is handed to the report with its results in the other order.
C9_Witness ==
    /\ pc = "render"
    /\ Len(subdomains) = 3
    /\ Len(batch) = 2
    /\ batch[1] # batch[2]
    /\ results[1][1] = batch[2]
    /\ results[2][1] = batch[1]

\* C10 (as claimed): every report file on disk holds a complete rendered
\* document, never a part of one.
C10_NoPartialReport ==
    \A f \in ReportFiles :
        /\ \E n \in 1..batch_size : IsCompleteDocument(disk[f], n)
        /\ (f = output_file /\ pc \in {"write", "close"}) => disk[f] = output_content

\* The run was ended by an error of generate_html_report.
ReportWriteError ==
    /\ pc = "aborted"
    /\ i >= 0
    /\ error \in {<<"TemplateError">>, <<"OSError">>}

\* The batch loop has left batch k behind.
Passed(k) == i >= 0 /\ (k < Ordinal \/ (k = Ordinal /\ pc \in {"split", "done"}))

\* C11: the batch loop never goes past a batch whose report it could not
\* write; in a run ended by a report-write error for batch k no target after
\* batch k was ever submitted and the report files are those of batches
\* 1..k-1, each complete; the step that ends the run writes nothing; and no
\* step changes or removes a report file other than the one of the batch the
\* loop is at.
C11_ReportErrorAborts ==
    /\ [](/\ \A k \in 1..Ceil(Len(subdomains), batch_size) :
               Passed(k) => ReportName(k) \in ReportFiles
          /\ ReportWriteError =>
               /\ \A p \in Positions : p > i + Len(batch) => unit[p].st = "unsubmitted"
               /\ ReportFiles = {ReportName(k) : k \in 1..(Ordinal - 1)}
               /\ \A k \in 1..(Ordinal - 1) :
                    IsCompleteDocument(disk[ReportName(k)], batch_size))
    /\ [][/\ ReportWriteError' => disk' = disk
          /\ \A f \in ReportFiles :
               (i >= 0 /\ f # output_file) => (f \in ReportFiles' /\ disk'[f] = disk[f])]_vars

\* C11 witness: the report of the second batch could not be written; the
\* run is over, the first report is on disk, the third target was never
\* submitted.
C11_Witness ==
    /\ ReportWriteError
    /\ Ordinal = 2
    /\ ReportFiles = {ReportName(1)}
    /\ Len(subdomains) = 3
    /\ unit[3].st = "unsubmitted"

\* A -H argument holds no ":" at all.
NoSeparator(h) == \A k \in 1..Len(h) : h[k] # ":"

\* The run was given an unreadable input file or a -H argument without separator.
ConfigError ==
    \/ ~file.readable
    \/ args.header # None /\ \E k \in 1..Len(args.header) : NoSeparator(args.header[k])

\* C12: in a run with a configuration error main never gets past loading:
\* no work item exists (no GET is issued), no session is open, no screenshot
\* and no report file is written; past the step that meets the error the
\* run is aborted (a -H argument without separator ends it before the input
\* file is read).
C12_ConfigErrorsAbortFirst ==
    ConfigError =>
        /\ pc \in {"parse_headers", "load", "aborted"}
        /\ (args.header # None /\ \E k \in 1..Len(args.header) : NoSeparator(args.header[k])) =>
               (pc \in {"parse_headers", "aborted"} /\ headers = <<>> /\ subdomains = <<>>)
        /\ pc = "aborted" => error \in {<<"ValueError">>, <<"OSError">>}
        /\ i = -1
        /\ unit = <<>>
        /\ attempts = <<>>
        /\ sessions = {}
        /\ screenshots = {}
        /\ disk = <<>>

\* C12 witness: a run aborted on its -H argument, its readable input file
\* of three lines left unread.
C12_Witness ==
    /\ pc = "aborted"
    /\ error = <<"ValueError">>
    /\ file.readable
    /\ Len(file.lines) = 3

\* The state of the claimed per-target state machine a work item is in:
\* Pending 1, Fetching 2, FetchFailed or Fetched 3, Capturing 4,
\* CaptureFailed or Captured 5, Finalized 6 (0: not submitted). A work item
\* whose session could not be started is at CaptureFailed while the
\* exception travels through the handler of fetch_subdomain.
Phase(u) ==
    CASE u.st = "unsubmitted" -> 0
      [] u.st = "pending" -> 1
      [] u.st = "fetching" -> 2
      [] u.st = "fetched" -> 3
      [] u.st \in {"fetch_failed", "raised"} -> IF u.capture = "none" THEN 3 ELSE 5
      [] u.st = "capturing" -> 4
      [] u.st \in {"captured", "capture_failed", "unwinding"} -> 5
      [] u.st = "finalized" -> 6

\* The capture of a work item was attempted.
CaptureAttempted(u) == u.st = "capturing" \/ u.capture # "none"

\* C13: every step that changes a work item moves it forward in the state
\* machine (a finished one stays finished); it enters Capturing only from
\* Fetched; and a capture is attempted only for a work item whose own GET
\* has returned a response.
C13_TargetStateMachine ==
    [][\A p \in DOMAIN unit \cap DOMAIN unit' :
          /\ unit'[p] # unit[p] =>
                \/ Phase(unit'[p]) > Phase(unit[p])
                \/ Phase(unit[p]) = 6 /\ Phase(unit'[p]) = 6
          /\ (Phase(unit'[p]) = 4 /\ Phase(unit[p]) # 4) =>
                (unit[p].st = "fetched" /\ unit[p].fetch = "ok")
          /\ (CaptureAttempted(unit'[p]) /\ ~CaptureAttempted(unit[p])) =>
                (Phase(unit[p]) = 3 /\ unit[p].fetch = "ok")
          /\ (Phase(unit[p]) = 3 /\ unit[p].fetch = "error") =>
                ~CaptureAttempted(unit'[p])]_vars

\* C13 witness: in one batch a work item went through Fetched, Capturing
\* and CaptureFailed to Finalized, and another from FetchFailed to Finalized.
C13_Witness ==
    \E p, q \in Finalized :
        /\ unit[p].fetch = "ok" /\ unit[p].capture = "error"
        /\ unit[q].fetch = "error" /\ unit[q].capture = "none"

\* Work item p is submitted and not finished.
Dispatched(p) == p \in Positions /\ unit[p].st \in {"pending"} \cup ActiveStates

\* C14: under fair scheduling every batch whose pool was created is
\* returned by process_subdomains with every one of its work items finished,
\* whether its fetch failed, its session did not start, its capture failed
\* or nothing failed; and the run ends, for good, with no work item left
\* queued or running.
C14_FinalizedAlwaysReached ==
    /\ (pc = "submit") ~>
          (pc = "render" /\ \A p \in BatchPositions : unit[p].st = "finalized")
    /\ <>[](pc \in {"done", "aborted"} /\ \A p \in Positions : ~Dispatched(p))

\* C14 witness: a run of two batches has ended after the work item of its
\* last batch went through a failed capture.
C14_Witness ==
    /\ pc = "done"
    /\ batch_size = 1
    /\ Len(subdomains) = 2
    /\ \A p \in Positions : unit[p].st = "finalized"
    /\ results[1][2] # FailedToFetch /\ results[1][3] = None

\* C15: whenever a batch's report is being rendered or written, every work
\* item of the batch is finished and none anywhere is queued or running;
\* the result list holds one record for each target of the batch (the
\* records can be matched one to one with the batch's positions), and the
\* rendered document has one row per target.
C15_ReportAfterAllUnits ==
    pc \in {"render", "open", "write", "close"} =>
        /\ \A p \in BatchPositions : unit[p].st = "finalized"
        /\ \A p \in Positions : ~Dispatched(p)
        /\ Len(results) = Len(batch)
        /\ \E f \in [1..Len(batch) -> 1..Len(results)] :
              /\ \A j, k \in 1..Len(batch) : j # k => f[j] # f[k]
              /\ \A k \in 1..Len(batch) : results[f[k]][1] = batch[k]
        /\ pc # "render" => IsCompleteDocument(output_content, Len(batch))

\* C15 witness: the report of a first batch of two targets is rendered and
\* about to be written while a third target waits for the next batch.
C15_Witness ==
    /\ pc = "open"
    /\ Ordinal = 1
    /\ Len(batch) = 2
    /\ Len(output_content) = 4
    /\ Len(subdomains) = 3
    /\ unit[3].st = "unsubmitted"

\* The work items inside take_screenshot's try block, which saves the
\* screenshot file.
Capturing == {p \in Positions : unit[p].st = "capturing"}

\* C16 (as claimed): no two work items that are capturing at the same time
\* save to the same screenshot file.
C16_UniqueScreenshotFiles ==
    \A p, q \in Capturing :
        p # q => screenshot_filename(unit[p].subdomain) #
                 screenshot_filename(unit[q].subdomain)

\* The place of position p in a sequence that holds it once.
IndexOf(seq, p) == CHOOSE k \in 1..Len(seq) : seq[k] = p

\* The collecting loop of the batch has taken its last future.
BatchCollected == pc = "drain" /\ all_collected

\* C17 (as claimed): in the list process_subdomains returns, the record of
\* a work item that finished before another one of the batch comes first.
C17_CompletionOrder ==
    BatchCollected =>
        /\ Len(yielded) = Len(completed)
        /\ \A j, k \in 1..Len(completed) :
             j < k => IndexOf(yielded, completed[j]) < IndexOf(yielded, completed[k])

\* The futures that finished after as_completed was called.
FinishedLater(p) == p \notin found_finished

\* C17 (amended): the result list holds the results of the futures in the
\* order as_completed yields them. The futures found finished when
\* as_completed was called are those that finished first, and their records
\* come before every other record, in any order among themselves; of two
\* futures that finished later, the one that finished first is yielded
\* first, and the other not before it.
C17_YieldOrder ==
    pc = "drain" =>
        /\ Len(results) = Len(yielded)
        /\ \A k \in 1..Len(yielded) : results[k] = unit[yielded[k]].result
        /\ found_finished = {completed[k] : k \in 1..Cardinality(found_finished)}
        /\ \A j, k \in 1..Len(yielded) :
             j < k =>
                /\ ~FinishedLater(yielded[k]) => ~FinishedLater(yielded[j])
                /\ (FinishedLater(yielded[j]) /\ FinishedLater(yielded[k])) =>
                      IndexOf(completed, yielded[j]) < IndexOf(completed, yielded[k])
        /\ \A j, k \in 1..Len(completed) :
             (j < k /\ FinishedLater(completed[j]) /\
              \E n \in 1..Len(yielded) : yielded[n] = completed[k]) =>
                 \E n \in 1..Len(yielded) : yielded[n] = completed[j]

\* C17 witness: both work items of a batch finished after as_completed was
\* called, the second submitted first; the list returned holds its result
\* first.
C17_Witness ==
    /\ BatchCollected
    /\ Len(batch) = 2
    /\ found_finished = {}
    /\ completed = <<i + 2, i + 1>>
    /\ yielded = <<i + 2, i + 1>>
    /\ results[1] = unit[i + 2].result

\* A step in which work item p, queued or running, changes: a step of the
\* worker thread that runs it.
WorkerWrote(p) ==
    /\ p \in DOMAIN unit \cap DOMAIN unit'
    /\ Phase(unit[p]) \in 1..5
    /\ unit'[p] # unit[p]

\* C18: the list of results changes only in steps of the main thread: it
\* is made empty when the batch loop takes a batch and grows by the result
\* of the future just yielded in the collecting loop. A step of a worker
\* leaves it alone, as it does the headers, the loaded list, the batch, the
\* reports and every other work item; it may open or end its own session
\* and add its file to the screenshot directory. The headers never change
\* once parsed, and every GET was sent the headers parsed from the command
\* line.
C18_SingleWriter ==
    /\ [][/\ results' # results =>
               \/ pc = "split" /\ results' = <<>>
               \/ /\ pc = "drain"
                  /\ Len(yielded') = Len(yielded) + 1
                  /\ results' = Append(results, unit[yielded'[Len(yielded')]].result)
                  /\ unit' = unit
          /\ \A p \in DOMAIN unit :
               WorkerWrote(p) =>
                  /\ results' = results
                  /\ headers' = headers
                  /\ <<subdomains, batch, i, submitted, to_yield, finished>>' =
                        <<subdomains, batch, i, submitted, to_yield, finished>>
                  /\ <<output_content, disk, error, pc>>' = <<output_content, disk, error, pc>>
                  /\ \A q \in DOMAIN unit : q # p => unit'[q] = unit[q]
                  /\ sessions' \in {sessions, sessions \cup {p}, sessions \ {p}}
                  /\ screenshots' \in {screenshots,
                                        screenshots \cup {screenshot_filename(unit[p].subdomain)}}
          /\ pc # "parse_headers" => headers' = headers]_vars
    /\ [](\A p \in DOMAIN unit :
             unit[p].url # None =>
                /\ unit[p].headers = headers
                /\ args.header # None => headers = parse_headers(args.header, <<>>))

\* C18 witness: the main thread has appended the result of one work item
\* of the batch while the other, sent its GET with the parsed headers, is
\* inside take_screenshot.
C18_Witness ==
    /\ pc = "drain"
    /\ Len(results) = 1
    /\ headers # <<>>
    /\ \E p \in BatchPositions :
         /\ unit[p].st = "capturing"
         /\ unit[p].headers = headers

\* C19: for every position of the loaded list the GET is issued at most
\* once and the capture begun at most once, and only after the GET: the
\* GET has been issued exactly once for every work item that was started,
\* never for one still queued or not submitted, and for every position
\* when the run reaches its end; a work item whose fetch or capture failed
\* has made exactly the one attempt that failed.
C19_ExactlyOneAttempt ==
    \A p \in Positions :
        /\ attempts[p].gets = IF Phase(unit[p]) >= 2 THEN 1 ELSE 0
        /\ attempts[p].captures <= attempts[p].gets
        /\ unit[p].fetch = "error" => (attempts[p].gets = 1 /\ attempts[p].captures = 0)
        /\ unit[p].capture \in {"ok", "error"} => attempts[p].captures = 1
        /\ unit[p].capture = "start_error" => attempts[p].captures = 0
        /\ pc = "done" => attempts[p].gets = 1

\* C19 witness: a run has ended in which the GET of one target failed and
\* the capture of another was made; each was attempted once.
C19_Witness ==
    /\ pc = "done"
    /\ \E p, q \in Positions :
         /\ attempts[p] = [gets |-> 1, captures |-> 0]
         /\ attempts[q] = [gets |-> 1, captures |-> 1]
         /\ \E k \in RowsOf(disk[ReportName(BatchOf(p) + 1)]) :
              disk[ReportName(BatchOf(p) + 1)][k] = <<subdomains[p], FailedToFetch, None>>

\* The input file was read and held no target.
LoadedEmpty ==
    /\ ~ConfigError
    /\ pc \notin {"parse_headers", "load"}
    /\ subdomains = <<>>

\* C20: a file yields no target exactly when each of its lines is blank;
\* once such a file is loaded the batch loop ends without running its
\* body: the run is at the loop's head or has ended normally, the loop has
\* no offset to start a batch at, no work item and no pool exists, no GET
\* was issued, no session is open, and neither a screenshot nor a report
\* file was written. A run that ends normally without a report had no
\* target.
C20_EmptyListNoReport ==
    /\ (pc = "load" /\ file.readable) =>
           (load_subdomains(file.lines) = <<>> <=>
              \A k \in 1..Len(file.lines) : strip(file.lines[k]) = <<>>)
    /\ LoadedEmpty =>
           /\ pc \in {"split", "done"}
           /\ error = None
           /\ batch_offsets(Len(subdomains), batch_size) = {}
           /\ i = -1
           /\ batch = <<>>
           /\ unit = <<>>
           /\ attempts = <<>>
           /\ sessions = {}
           /\ screenshots = {}
           /\ ReportFiles = {}
    /\ (pc = "done" /\ ReportFiles = {}) => subdomains = <<>>

\* C20 witness: a run without targets has ended normally and left no report.
C20_Witness ==
    /\ LoadedEmpty
    /\ pc = "done"
    /\ max_workers = MaxConcurrency
    /\ ReportFiles = {}

====
